---- MODULE Spec2Model ----
(***************************************************************************)
(* AcademIQ (src/app.py): course catalog loading, TF-IDF recommendation,   *)
(* the users/progress tables and the Streamlit pages of main().            *)
(*                                                                         *)
(* Representation.                                                         *)
(*  - A text (str) is a sequence of tokens; the token SP is one blank, any *)
(*    other token is one word.  "" is <<>>, "Data " is <<"Data", SP>>.     *)
(*  - A CSV cell that pandas reads as NaN is the value NaN (text columns)  *)
(*    or NaNId (course_id).                                                *)
(*  - A DataFrame is a sequence of rows; every row keeps its pandas index  *)
(*    label (its row number in the file), which dropna does not reset.     *)
(*  - completion_status is the rational num/den that                       *)
(*    completion_percentage / 100.0 denotes.                               *)
(***************************************************************************)
EXTENDS Integers, Sequences, FiniteSets, TLC

VARIABLES file, pandas, df, users, progress, session, run

vars == <<file, pandas, df, users, progress, session, run>>

(***************************************************************************)
(* Bounds of the model.                                                    *)
(***************************************************************************)
\* the progress table grows without limit; updates stop at this many rows
MaxProgress == 2
\* cosine similarities are abstracted to the levels 0..MaxScore
MaxScore == 2
\* largest top_n passed to recommend_courses when it is called directly
MaxTopN == 4

\* default of the parameter top_n
DefaultTopN == 5
\* st.slider("Completion Percentage", 0, 100, 0)
SliderMin == 0
SliderMax == 100

(***************************************************************************)
(* Text                                                                    *)
(***************************************************************************)
SP == " "

\* Python truthiness of a str / list: non-empty
Truthy(s) == s /= <<>>

RECURSIVE LStrip(_)
LStrip(s) == IF s /= <<>> /\ Head(s) = SP THEN LStrip(Tail(s)) ELSE s

RECURSIVE RStrip(_)
RStrip(s) ==
    IF s /= <<>> /\ s[Len(s)] = SP THEN RStrip(SubSeq(s, 1, Len(s) - 1)) ELSE s

\* str.strip()
strip(s) == RStrip(LStrip(s))

\* TfidfVectorizer lower-cases before tokenizing
Lower(w) ==
    CASE w = "Data" -> "data"
      [] w = "IT" -> "it"
      [] w = "ML" -> "ml"
      [] w = "The" -> "the"
      [] OTHER -> w

\* the part of sklearn's English stop-word list that the texts below use
StopWords == {"it", "the", "none"}

\* the terms TfidfVectorizer(stop_words='english') extracts from one text
Terms(text) ==
    {Lower(text[i]) : i \in {j \in 1..Len(text) : text[j] /= SP}} \ StopWords

min(a, b) == IF a <= b THEN a ELSE b

(***************************************************************************)
(* Catalog source files                                                    *)
(***************************************************************************)
NaN == <<"NaN">>
NaNId == "NaN"

Row(cid, title, cat, skills, prereq) ==
    [course_id |-> cid, title |-> title, Category |-> cat,
     skills_covered |-> skills, prerequisites |-> prereq]

EmptyRow == Row(NaNId, NaN, NaN, NaN, NaN)

\* a catalog with two categories, one fully empty row, one row without a
\* title, and one category ("IT") whose only course is made of stop words
MainRows ==
    << Row("C1", <<"ML">>, <<"Data">>, <<"python">>, <<"none">>),
       EmptyRow,
       Row("C2", <<"stats">>, <<"Data">>, <<"ml">>, <<"none">>),
       Row("C3", NaN, <<"Data">>, <<"ml">>, <<"none">>),
       Row("C4", <<"The">>, <<"IT">>, <<"it">>, <<"none">>) >>

\* no row survives validation
InvalidRows ==
    << EmptyRow, Row("C3", NaN, <<"Data">>, <<"ml">>, <<"none">>),
       Row(NaNId, <<"ML">>, <<"Data">>, <<"ml">>, <<"none">>) >>

\* every surviving row consists of stop words
StopRows == << Row("C4", <<"The">>, <<"IT">>, <<"it">>, <<"none">>) >>

\* the catalog files that the model runs on, by path
MainFile == "catalog.csv"
StopFile == "stop_words_only.csv"
InvalidFile == "no_valid_row.csv"
MissingFile == "missing.csv"

Files == {MainFile, StopFile, InvalidFile, MissingFile}

\* pd.read_csv raises FileNotFoundError
NotFound(file_path) == file_path = MissingFile

\* the rows pd.read_csv reads
ReadCsv(file_path) ==
    CASE file_path = MainFile -> MainRows
      [] file_path = StopFile -> StopRows
      [] file_path = InvalidFile -> InvalidRows
      [] OTHER -> <<>>

\* What DataFrame.apply(axis=1) gives on a frame without rows depends on the
\* installed pandas: an empty Series ("series"), or a copy of the frame
\* ("frame"), whose assignment to the single column 'features' raises.
EmptyApply == {"series", "frame"}

(***************************************************************************)
(* load_course_data                                                        *)
(***************************************************************************)
\* rows of the file with their pandas index labels
Indexed(rows) == [i \in 1..Len(rows) |-> [index |-> i - 1, row |-> rows[i]]]

AllNa(r) ==
    /\ r.course_id = NaNId
    /\ r.title = NaN
    /\ r.Category = NaN
    /\ r.skills_covered = NaN
    /\ r.prerequisites = NaN

AnyNa(r) ==
    \/ r.course_id = NaNId
    \/ r.title = NaN
    \/ r.Category = NaN
    \/ r.skills_covered = NaN
    \/ r.prerequisites = NaN

\* df.dropna(how='all')
dropna_all(frame) == SelectSeq(frame, LAMBDA x : ~AllNa(x.row))

\* df.dropna(subset=[course_id, title, Category, skills_covered, prerequisites])
dropna_subset(frame) == SelectSeq(frame, LAMBDA x : ~AnyNa(x.row))

\* f"{title} {Category} {skills_covered} {prerequisites}"
features(r) ==
    r.title \o <<SP>> \o r.Category \o <<SP>> \o r.skills_covered
            \o <<SP>> \o r.prerequisites

with_features(frame) ==
    [i \in 1..Len(frame) |->
        [index |-> frame[i].index, course_id |-> frame[i].row.course_id,
         Category |-> frame[i].row.Category,
         features |-> features(frame[i].row)]]

\* the return value None
DfNone == [isNone |-> TRUE, rows |-> <<>>]

Df(rows) == [isNone |-> FALSE, rows |-> rows]

load_course_data(file_path, emptyApply) ==
    IF NotFound(file_path) THEN DfNone
    ELSE LET kept == dropna_subset(dropna_all(Indexed(ReadCsv(file_path))))
         IN IF kept = <<>> /\ emptyApply = "frame"
            THEN DfNone
            ELSE Df(with_features(kept))

(***************************************************************************)
(* TfidfVectorizer.fit_transform, cosine_similarity                        *)
(***************************************************************************)
Vocabulary(rows) == UNION {Terms(rows[i].features) : i \in 1..Len(rows)}

\* fit_transform raises ValueError("empty vocabulary; ...") on a corpus that
\* has no term left
FitRaises(rows) == Vocabulary(rows) = {}

\* The rows cosine_similarity can return for a query against the matrix fit
\* on `rows`.  TF-IDF weights are positive for the terms of a document, so a
\* course scores above 0 exactly when it shares a vocabulary term with the
\* query; how far above 0 is left open (any level 1..MaxScore).
CosineSims(user_input, rows) ==
    {s \in [1..Len(rows) -> 0..MaxScore] :
        \A i \in 1..Len(rows) :
            (s[i] > 0) <=> (Terms(user_input) \cap Terms(rows[i].features) /= {})}

(***************************************************************************)
(* recommend_courses                                                       *)
(***************************************************************************)
\* put x behind every pair whose score is at least x's score
RECURSIVE InsertBehind(_, _)
InsertBehind(x, s) ==
    IF s = <<>> THEN <<x>>
    ELSE IF Head(s)[2] >= x[2] THEN <<Head(s)>> \o InsertBehind(x, Tail(s))
    ELSE <<x>> \o s

\* put x in front of every pair whose score is at most x's score
RECURSIVE InsertBefore(_, _)
InsertBefore(x, s) ==
    IF s = <<>> THEN <<x>>
    ELSE IF Head(s)[2] > x[2] THEN <<Head(s)>> \o InsertBefore(x, Tail(s))
    ELSE <<x>> \o s

\* a descending sort that reverses the order of equal scores
RECURSIVE sorted_unstable(_)
sorted_unstable(s) ==
    IF s = <<>> THEN <<>>
    ELSE InsertBefore(s[Len(s)], sorted_unstable(SubSeq(s, 1, Len(s) - 1)))

\* sorted(sim_scores, key=lambda x: x[1], reverse=True): descending by score;
\* Python's sort is stable, also under reverse=True
RECURSIVE sorted_reverse(_)
sorted_reverse(s) ==
    IF s = <<>> THEN <<>>
    ELSE InsertBehind(s[Len(s)], sorted_reverse(SubSeq(s, 1, Len(s) - 1)))

\* no clamp: every scored course is taken
unclamped(top_n, n) == n

\* top_n = min(top_n, len(sim_scores))
clamp_top_n(top_n, n) == min(top_n, n)

\* cosine_sim stands for cosine_similarity(user_tfidf, tfidf_matrix)[0]; the
\* result is dataframe.iloc[course_indices]
recommend_courses(user_input, cosine_sim, dataframe, top_n) ==
    IF ~Truthy(user_input) \/ dataframe = <<>> THEN <<>>
    ELSE LET sim_scores == [i \in 1..Len(cosine_sim) |-> <<i, cosine_sim[i]>>]
             ranked == sorted_reverse(sim_scores)
             n == clamp_top_n(top_n, Len(ranked))
             course_indices == [k \in 1..n |-> ranked[k][1]]
         IN [k \in 1..n |-> dataframe[course_indices[k]]]

(***************************************************************************)
(* users and progress tables                                               *)
(***************************************************************************)
\* the columns of each UNIQUE / PRIMARY KEY constraint of the schema
UsersUnique == {"user_id", "username"}
ProgressUnique == {"progress_id"}

MaxOf(S) == IF S = {} THEN 0 ELSE CHOOSE m \in S : \A x \in S : x <= m

\* INTEGER PRIMARY KEY AUTOINCREMENT: one more than the largest id used
NextId(table, col) == MaxOf({table[i][col] : i \in 1..Len(table)}) + 1

Conflicts(table, row, unique) ==
    {i \in 1..Len(table) : \E col \in unique : table[i][col] = row[col]}

\* the value None that add_user returns after an IntegrityError
NoId == 0

\* INSERT INTO users without the UNIQUE constraint on username
add_user_unchecked(table, username, interests, goals, skill_level) ==
    LET row == [user_id |-> NextId(table, "user_id"), username |-> username,
                interests |-> interests, goals |-> goals,
                skill_level |-> skill_level]
    IN [users |-> Append(table, row), lastrowid |-> row.user_id,
        msg |-> "success_registered"]

\* INSERT INTO users: sqlite raises IntegrityError on a UNIQUE conflict
add_user(table, username, interests, goals, skill_level) ==
    LET row == [user_id |-> NextId(table, "user_id"), username |-> username,
                interests |-> interests, goals |-> goals,
                skill_level |-> skill_level]
    IN IF Conflicts(table, row, UsersUnique) /= {}
       THEN [users |-> table, lastrowid |-> NoId, msg |-> "error_exists"]
       ELSE [users |-> Append(table, row), lastrowid |-> row.user_id,
             msg |-> "success_registered"]

\* fetchone(): <<>> for None, else the first matching row
get_user(table, username) ==
    LET hit == SelectSeq(table, LAMBDA r : r.username = username)
    IN IF hit = <<>> THEN <<>> ELSE <<Head(hit)>>

\* completion_percentage / 100.0
Fraction(percentage) == [num |-> percentage, den |-> 100]

\* INSERT OR REPLACE INTO progress: rows that conflict on a uniqueness
\* constraint are deleted, then the row is inserted.  Foreign keys are not
\* enforced (sqlite's default), so user_id is not looked up.
update_progress(table, user_id, course_id, completion_status) ==
    LET row == [progress_id |-> NextId(table, "progress_id"),
                user_id |-> user_id, course_id |-> course_id,
                completion_status |-> completion_status]
        kept == SelectSeq(table, LAMBDA r :
                    \A col \in ProgressUnique : r[col] /= row[col])
    IN Append(kept, row)

\* SELECT course_id, completion_status FROM progress WHERE user_id = ?
get_user_progress(table, user_id) ==
    LET hit == SelectSeq(table, LAMBDA r : r.user_id = user_id)
    IN [i \in 1..Len(hit) |-> <<hit[i].course_id, hit[i].completion_status>>]

(***************************************************************************)
(* main(): one action per script run.  Streamlit reruns main() from the    *)
(* top on every interaction, with the widget values of that interaction.   *)
(***************************************************************************)
\* st.session_state without the current_* keys
NoSession ==
    [current_user_id |-> NoId, current_username |-> "",
     current_interests |-> "", current_goals |-> "",
     current_skill_level |-> ""]

\* the current user id taken one off the row's user_id
SessionOfNextId(row) ==
    [current_user_id |-> row.user_id + 1, current_username |-> row.username,
     current_interests |-> row.interests, current_goals |-> row.goals,
     current_skill_level |-> row.skill_level]

\* lines 250-254
SessionOf(row) ==
    [current_user_id |-> row.user_id, current_username |-> row.username,
     current_interests |-> row.interests, current_goals |-> row.goals,
     current_skill_level |-> row.skill_level]

\* values typed into the text inputs of the Profile page
Usernames == {"", "alice", "bob"}
Interests == {"", "ml"}
Goals == {"", "job"}
SkillLevels == {"Beginner"}

\* values typed into the keywords text area
Keywords == {<<>>, <<SP>>, <<"python", SP>>}

ALL == <<"All">>

\* the entries of the category selectbox that the model selects
CategoryChoices == {ALL, <<"Data">>, <<"IT">>}

\* the slider positions and the courses that the model updates
SliderValues == {40, 90}
UpdatedCourses == {"C1"}


\* lines 214-221: "stopped" by st.stop(), "raised" by the ValueError of
\* get_tfidf_matrix that nothing catches, else "ok"
Prelude ==
    IF df.isNone THEN "stopped"
    ELSE IF FitRaises(df.rows) THEN "raised"
    ELSE "ok"

PreludeCalls ==
    {"init_db", "load_course_data"}
        \cup (IF df.isNone THEN {} ELSE {"get_tfidf_matrix"})

PreludeMsgs ==
    IF ~df.isNone THEN {}
    ELSE IF NotFound(file) THEN {"error_file_not_found"}
    ELSE {"error_loading_dataset"}

\* what a run did: the page and widget values it ran with, how it ended,
\* the functions it called, the messages it showed, the courses it listed
Run(page, input, end, calls, msgs, recs) ==
    [page |-> page, input |-> input, end |-> end,
     calls |-> PreludeCalls \cup calls, msgs |-> PreludeMsgs \cup msgs,
     recs |-> recs]

Aborted(page, input) == Run(page, input, Prelude, {}, {}, <<>>)

\* the widget values of a run in which no button was pressed
NoInput == [button |-> "none"]

Init ==
    /\ file \in Files
    \* the choice matters only for a file without a valid row
    /\ pandas \in IF file = InvalidFile THEN EmptyApply ELSE {"series"}
    \* @st.cache_data: the file is loaded once, every run gets that result
    /\ df = load_course_data(file, pandas)
    /\ users = <<>>
    /\ progress = <<>>
    /\ session = NoSession
    /\ run = [page |-> "none", input |-> NoInput, end |-> "none",
              calls |-> {}, msgs |-> {}, recs |-> <<>>]

\* lines 223-239
Home ==
    /\ run' = IF Prelude /= "ok" THEN Aborted("Home", NoInput)
              ELSE Run("Home", NoInput, "completed", {}, {}, <<>>)
    /\ UNCHANGED <<file, pandas, df, users, progress, session>>

\* lines 245-263, 287-288: the Profile page without a form submission
ProfileLookup(username) ==
    LET input == [button |-> "none", username |-> username]
        user_data == get_user(users, username)
    IN IF Prelude /= "ok"
       THEN /\ run' = Aborted("Profile", input)
            /\ UNCHANGED <<file, pandas, df, users, progress, session>>
       ELSE IF username = ""
       THEN /\ run' = Run("Profile", input, "completed", {},
                          {"info_enter_username"}, <<>>)
            /\ UNCHANGED <<file, pandas, df, users, progress, session>>
       ELSE IF user_data /= <<>>
       THEN /\ session' = SessionOf(user_data[1])
            /\ run' = Run("Profile", input, "completed", {"get_user"},
                          {"info_welcome_back"}, <<>>)
            /\ UNCHANGED <<file, pandas, df, users, progress>>
       ELSE /\ run' = Run("Profile", input, "completed", {"get_user"},
                          {"warning_user_not_found"}, <<>>)
            /\ UNCHANGED <<file, pandas, df, users, progress, session>>

\* only the username is required
username_filled(new_username, new_interests, new_goals) == new_username /= ""

\* line 274: if new_username and new_interests and new_goals
required_filled(new_username, new_interests, new_goals) ==
    new_username /= "" /\ new_interests /= "" /\ new_goals /= ""

\* lines 265-286: the registration form is on the page only when the looked
\* up username is non-empty and unknown; Register was pressed
ProfileRegister(username, new_username, new_interests, new_goals, new_skill_level) ==
    LET input == [button |-> "Register", username |-> username,
                  new_username |-> new_username,
                  new_interests |-> new_interests, new_goals |-> new_goals,
                  new_skill_level |-> new_skill_level]
        added == add_user(users, new_username, new_interests, new_goals,
                          new_skill_level)
    IN /\ Prelude = "ok"
       /\ username /= ""
       /\ get_user(users, username) = <<>>
       /\ IF required_filled(new_username, new_interests, new_goals)
          THEN /\ users' = added.users
               /\ IF added.lastrowid /= NoId
                  THEN /\ session' =
                            [current_user_id |-> added.lastrowid,
                             current_username |-> new_username,
                             current_interests |-> new_interests,
                             current_goals |-> new_goals,
                             current_skill_level |-> new_skill_level]
                       /\ run' = Run("Profile", input, "completed",
                                     {"get_user", "add_user"},
                                     {"warning_user_not_found", added.msg,
                                      "success_registration"}, <<>>)
                  ELSE /\ session' = session
                       /\ run' = Run("Profile", input, "completed",
                                     {"get_user", "add_user"},
                                     {"warning_user_not_found", added.msg,
                                      "error_failed_to_register"}, <<>>)
          ELSE /\ run' = Run("Profile", input, "completed", {"get_user"},
                             {"warning_user_not_found",
                              "error_required_fields"}, <<>>)
               /\ UNCHANGED <<users, session>>
       /\ UNCHANGED <<file, pandas, df, progress>>

\* ['All'] + sorted(df['Category'].unique().tolist())
categories == {ALL} \cup {df.rows[i].Category : i \in 1..Len(df.rows)}

\* no filter: every course of the catalog
unfiltered_df(selected_category) == df.rows

\* lines 300-302
final_filtered_df(selected_category) ==
    IF selected_category /= ALL
    THEN SelectSeq(df.rows, LAMBDA r : r.Category = selected_category)
    ELSE df.rows

\* lines 310-313
combined_input(selected_category, user_input_keywords) ==
    (IF selected_category /= ALL THEN selected_category \o <<SP>> ELSE <<>>)
        \o strip(user_input_keywords)

\* no try/except: the ValueError of fit_transform ends the run
value_error_uncaught(input) ==
    Run("Recommendations", input, "raised", {"fit_transform"}, {}, <<>>)

\* lines 349-350: except ValueError, a warning, and the run goes on
on_value_error(input) ==
    Run("Recommendations", input, "completed", {"fit_transform"},
        {"warning_not_enough_data"}, <<>>)

\* lines 292-305: the Recommendations page, button not pressed
RecommendationsView ==
    /\ run' = IF Prelude /= "ok" THEN Aborted("Recommendations", NoInput)
              ELSE Run("Recommendations", NoInput, "completed", {}, {}, <<>>)
    /\ UNCHANGED <<file, pandas, df, users, progress, session>>

\* lines 307-352: "Get Recommendations" pressed
GetRecommendations(selected_category, user_input_keywords) ==
    LET input == [button |-> "Get Recommendations",
                  selected_category |-> selected_category,
                  user_input_keywords |-> user_input_keywords]
        filtered == final_filtered_df(selected_category)
        combined == combined_input(selected_category, user_input_keywords)
    IN /\ Prelude = "ok"
       /\ selected_category \in categories
       /\ IF filtered = <<>>
          THEN run' = Run("Recommendations", input, "completed", {},
                          {"warning_no_courses_match"}, <<>>)
          ELSE IF ~Truthy(strip(combined))
          THEN run' = Run("Recommendations", input, "returned", {},
                          {"warning_select_or_enter"}, <<>>)
          ELSE IF FitRaises(filtered)
          THEN run' = on_value_error(input)
          ELSE \E cosine_sim \in CosineSims(combined, filtered) :
                 LET recommendations ==
                         recommend_courses(combined, cosine_sim, filtered,
                                           DefaultTopN)
                 IN run' = Run("Recommendations", input, "completed",
                               {"fit_transform", "recommend_courses"},
                               IF recommendations /= <<>>
                               THEN {"recommended_courses"}
                               ELSE {"warning_no_recommendations"},
                               recommendations)
       /\ UNCHANGED <<file, pandas, df, users, progress, session>>

\* lines 356-373, 386-389: the Progress page, button not pressed
ProgressView ==
    /\ run' =
         IF Prelude /= "ok" THEN Aborted("Progress", NoInput)
         ELSE IF session.current_user_id = NoId
         THEN Run("Progress", NoInput, "completed", {},
                  {"warning_log_in_or_register"}, <<>>)
         ELSE Run("Progress", NoInput, "completed", {"get_user_progress"},
                  IF get_user_progress(progress, session.current_user_id)
                         /= <<>>
                  THEN {"progress_table"} ELSE {"info_no_progress"}, <<>>)
    /\ UNCHANGED <<file, pandas, df, users, progress, session>>

\* df['course_id'].unique().tolist()
course_id_options == {df.rows[i].course_id : i \in 1..Len(df.rows)}

\* lines 359-385: a course selected, the slider set, "Update Progress" pressed
ProgressUpdate(course_id_to_update, completion_percentage) ==
    LET input == [button |-> "Update Progress",
                  course_id_to_update |-> course_id_to_update,
                  completion_percentage |-> completion_percentage]
        user_id == session.current_user_id
    IN /\ Prelude = "ok"
       /\ user_id /= NoId
       /\ course_id_to_update \in course_id_options
       /\ completion_percentage \in SliderMin..SliderMax
       /\ Len(progress) < MaxProgress
       /\ progress' = update_progress(progress, user_id, course_id_to_update,
                                      Fraction(completion_percentage))
       /\ run' = Run("Progress", input, "completed",
                     {"get_user_progress", "update_progress"},
                     {"success_progress_updated"}, <<>>)
       /\ UNCHANGED <<file, pandas, df, users, session>>

Next ==
    \/ Home
    \/ \E u \in Usernames : ProfileLookup(u)
    \/ \E u \in Usernames, nu \in Usernames, ni \in Interests, ng \in Goals,
          ns \in SkillLevels : ProfileRegister(u, nu, ni, ng, ns)
    \/ RecommendationsView
    \/ \E c \in CategoryChoices, k \in Keywords : GetRecommendations(c, k)
    \/ ProgressView
    \/ \E c \in UpdatedCourses, p \in SliderValues : ProgressUpdate(c, p)

Spec == Init /\ [][Next]_vars

(***************************************************************************)
(* recommend_courses called on its own, for every query, course subset,    *)
(* top_n and similarity row                                                *)
(***************************************************************************)
Queries == Keywords \cup {<<"ml">>, <<"Data", SP>>, <<"The">>}

\* every selection of rows of the frame, in the frame's order
Subsets(rows) ==
    {SelectSeq(rows, LAMBDA r : r.index \in labels) :
        labels \in SUBSET {rows[i].index : i \in 1..Len(rows)}}

\* what a direct call did: the function, its arguments, its return value
Call(function, input, msgs, ret) ==
    [page |-> function, input |-> input, end |-> "returned",
     calls |-> {function}, msgs |-> msgs, recs |-> <<>>, ret |-> ret]

\* the arguments of a call that has not been made yet
Pending(function, input) ==
    [page |-> function, input |-> input, end |-> "pending", calls |-> {},
     msgs |-> {}, recs |-> <<>>, ret |-> <<>>]

CallRecommendCourses ==
    /\ run.end = "pending"
    /\ run' = Call("recommend_courses", run.input, {},
                   recommend_courses(run.input.user_input,
                                     run.input.cosine_sim,
                                     run.input.dataframe, run.input.top_n))
    /\ UNCHANGED <<file, pandas, df, users, progress, session>>

InitStore ==
    /\ Init
    /\ file = MainFile

InitRank ==
    /\ file = MainFile
    /\ pandas = "series"
    /\ df = load_course_data(file, pandas)
    /\ users = <<>>
    /\ progress = <<>>
    /\ session = NoSession
    /\ \E q \in Queries, n \in 0..MaxTopN, d \in Subsets(df.rows) :
         \E s \in CosineSims(q, d) :
           run = Pending("recommend_courses",
                         [user_input |-> q, cosine_sim |-> s,
                          dataframe |-> d, top_n |-> n])

NextRank == CallRecommendCourses

SpecRank == InitRank /\ [][NextRank]_vars

(***************************************************************************)
(* The table functions called on their own                                 *)
(***************************************************************************)
CallUsernames == {"alice", "bob"}
CallInterests == {"ml", "art"}
CallGoals == {"job"}
CallSkillLevels == {"Beginner"}
CallUserIds == {1}
CallCourseIds == {"C1"}
\* percentages inside and outside the slider's range
CallPercentages == {40, 150}

CallAddUser(username, interests, goals, skill_level) ==
    LET added == add_user(users, username, interests, goals, skill_level)
    IN /\ users' = added.users
       /\ run' = Call("add_user",
                      [username |-> username, interests |-> interests,
                       goals |-> goals, skill_level |-> skill_level],
                      {added.msg}, added.lastrowid)
       /\ UNCHANGED <<file, pandas, df, progress, session>>

CallGetUser(username) ==
    /\ run' = Call("get_user", [username |-> username], {},
                   get_user(users, username))
    /\ UNCHANGED <<file, pandas, df, users, progress, session>>

CallUpdateProgress(user_id, course_id, completion_status) ==
    /\ Len(progress) < MaxProgress
    /\ progress' = update_progress(progress, user_id, course_id,
                                   completion_status)
    /\ run' = Call("update_progress",
                   [user_id |-> user_id, course_id |-> course_id,
                    completion_status |-> completion_status],
                   {"success_progress_updated"}, <<>>)
    /\ UNCHANGED <<file, pandas, df, users, session>>

CallGetUserProgress(user_id) ==
    /\ run' = Call("get_user_progress", [user_id |-> user_id], {},
                   get_user_progress(progress, user_id))
    /\ UNCHANGED <<file, pandas, df, users, progress, session>>

NextStore ==
    \/ \E u \in CallUsernames, i \in CallInterests, g \in CallGoals,
          l \in CallSkillLevels : CallAddUser(u, i, g, l)
    \/ \E u \in CallUsernames : CallGetUser(u)
    \/ \E u \in CallUserIds, c \in CallCourseIds, p \in CallPercentages :
          CallUpdateProgress(u, c, Fraction(p))
    \/ \E u \in CallUserIds : CallGetUserProgress(u)

SpecStore == InitStore /\ [][NextStore]_vars

(***************************************************************************)
(* Properties                                                              *)
(***************************************************************************)
Returned(function) == run.page = function /\ run.end = "returned"

Pressed(button) == run.input.button = button

InUnit(status) == 0 <= status.num /\ status.num <= status.den

\* C1: the progress table holds at most one record per (user_id, course_id)
\* pair, and after an update of (u, c) get_user_progress(u) has exactly one
\* entry for c, with the value of that update.
C1_OneRecordPerUserCourse ==
    /\ \A i, j \in 1..Len(progress) :
          (/\ progress[i].user_id = progress[j].user_id
           /\ progress[i].course_id = progress[j].course_id) => i = j
    /\ Pressed("Update Progress") =>
          SelectSeq(get_user_progress(progress, session.current_user_id),
                    LAMBDA e : e[1] = run.input.course_id_to_update)
            = << <<run.input.course_id_to_update,
                   Fraction(run.input.completion_percentage)>> >>

UniqueUsernames(table) ==
    \A i, j \in 1..Len(table) : table[i].username = table[j].username => i = j

\* C2: add_user with a username that is already registered returns no user
\* id and leaves the users table as it was; get_user keeps returning the
\* first registration of every username, and no two stored profiles share a
\* username.
C2_DuplicateUsernameRejected ==
    [][/\ (/\ run'.page = "add_user"
           /\ get_user(users, run'.input.username) /= <<>>)
            => (run'.ret = NoId /\ users' = users)
       /\ \A i \in 1..Len(users) :
             get_user(users', users[i].username) = <<users[i]>>
       /\ UniqueUsernames(users')]_vars

\* C2 witness: a rejected second registration whose interests differ from
\* the stored ones
C2_Witness ==
    /\ Returned("add_user")
    /\ run.ret = NoId
    /\ get_user(users, run.input.username) /= <<>>
    /\ get_user(users, run.input.username)[1].interests /= run.input.interests
    /\ Len(users) = 2

\* C3: recommend_courses returns nothing when the query is empty or blank or
\* the course subset is empty.
C3_EmptyOrBlankQueryGivesNothing ==
    (/\ Returned("recommend_courses")
     /\ \/ strip(run.input.user_input) = <<>>
        \/ run.input.dataframe = <<>>) => run.ret = <<>>

\* a recommendation request with a specific category and empty keywords
CategoryOnly ==
    /\ Pressed("Get Recommendations")
    /\ run.input.selected_category /= ALL
    /\ run.input.user_input_keywords = <<>>

\* C4 as claimed: with a specific category and empty keywords no course is
\* recommended.
C4_CategoryOnlyRecommendsNothing == CategoryOnly => run.recs = <<>>

\* C4 as amended: with a specific category and empty keywords the query is
\* the category name and the vector space is fit on that category's courses
\* only: every recommended course is of that category, and unless the fit
\* fails for want of vocabulary (a warning, nothing recommended) the first
\* min(5, n) of the category's n courses are recommended.
C4_CategoryOnlyRecommendsFromCategory ==
    CategoryOnly =>
        LET cat == run.input.selected_category
            subset == SelectSeq(df.rows, LAMBDA r : r.Category = cat)
        IN /\ "fit_transform" \in run.calls
           /\ \A k \in 1..Len(run.recs) : run.recs[k].Category = cat
           /\ IF Vocabulary(subset) = {}
              THEN run.recs = <<>> /\ "warning_not_enough_data" \in run.msgs
              ELSE Len(run.recs) = min(DefaultTopN, Len(subset))

\* C4 witness: category "Data", no keywords, both Data courses recommended
C4_Witness ==
    /\ CategoryOnly
    /\ run.input.selected_category = <<"Data">>
    /\ Len(run.recs) = 2

\* C5: every stored completion_status lies in [0, 1], and an update with a
\* percentage outside [0, 100] leaves the progress table unchanged.
C5_StatusValidatedBeforeStorage ==
    [][/\ \A i \in 1..Len(progress') : InUnit(progress'[i].completion_status)
       /\ (/\ run'.page = "update_progress"
           /\ ~InUnit(run'.input.completion_status)) => progress' = progress
      ]_vars

\* the position in the frame of a returned row
PosOf(dataframe, row) ==
    CHOOSE i \in 1..Len(dataframe) : dataframe[i].index = row.index

\* C6: recommend_courses returns at most min(top_n, number of courses) rows,
\* each a row of the subset and none twice, also when top_n exceeds the
\* number of courses.
C6_AtMostTopNDistinctCourses ==
    Returned("recommend_courses") =>
        /\ Len(run.ret) <= min(run.input.top_n, Len(run.input.dataframe))
        /\ \A k \in 1..Len(run.ret) :
              \E i \in 1..Len(run.input.dataframe) :
                  run.input.dataframe[i] = run.ret[k]
        /\ \A a, b \in 1..Len(run.ret) :
              run.ret[a].index = run.ret[b].index => a = b

\* C6 witness: top_n larger than the subset, the whole subset returned
C6_Witness ==
    /\ Returned("recommend_courses")
    /\ run.input.top_n > Len(run.input.dataframe)
    /\ Len(run.ret) = Len(run.input.dataframe)
    /\ Len(run.ret) >= 2

ScoreOf(row) == run.input.cosine_sim[PosOf(run.input.dataframe, row)]

\* row x ranks before row y: higher score, or equal score and earlier in the
\* corpus
RanksBefore(x, y) ==
    \/ ScoreOf(x) > ScoreOf(y)
    \/ /\ ScoreOf(x) = ScoreOf(y)
       /\ PosOf(run.input.dataframe, x) < PosOf(run.input.dataframe, y)

\* C7: the output of recommend_courses is in non-increasing score order with
\* equal scores in corpus order, and every course left out ranks behind
\* every course returned.
C7_StableDescendingOrder ==
    (Returned("recommend_courses") /\ run.ret /= <<>>) =>
        /\ \A a, b \in 1..Len(run.ret) :
              a < b => RanksBefore(run.ret[a], run.ret[b])
        /\ \A i \in 1..Len(run.input.dataframe) :
              LET x == run.input.dataframe[i]
              IN (\A k \in 1..Len(run.ret) : run.ret[k] /= x) =>
                     (\A k \in 1..Len(run.ret) : RanksBefore(run.ret[k], x))

\* C7 witness: two returned courses tie, a third scores lower and one course
\* is cut off by top_n
C7_Witness ==
    /\ Returned("recommend_courses")
    /\ Len(run.ret) = 2
    /\ Len(run.input.dataframe) = 3
    /\ ScoreOf(run.ret[1]) = ScoreOf(run.ret[2])
    /\ ScoreOf(run.ret[1]) > 0

NoRowSurvives ==
    ~NotFound(file) /\ dropna_subset(dropna_all(Indexed(ReadCsv(file)))) = <<>>

\* C8: when no row of the catalog survives validation, every run shows a
\* load error and stops, as for a missing file, before get_tfidf_matrix.
C8_EmptyCatalogStopsBeforeVectorization ==
    (NoRowSurvives /\ run.page /= "none") =>
        /\ run.end = "stopped"
        /\ "get_tfidf_matrix" \notin run.calls
        /\ run.msgs /= {}

\* C9: a registration submitted with username, interests or goals empty does
\* not call add_user and leaves the users table and the session's current
\* user unchanged.
C9_IncompleteRegistrationRejected ==
    [][(/\ run'.input.button = "Register"
        /\ \/ run'.input.new_username = ""
           \/ run'.input.new_interests = ""
           \/ run'.input.new_goals = "")
         => /\ "add_user" \notin run'.calls
            /\ "error_required_fields" \in run'.msgs
            /\ users' = users
            /\ session' = session]_vars

\* C9 witness: an incomplete registration rejected while a user is logged in
C9_Witness ==
    /\ Pressed("Register")
    /\ run.input.new_username /= ""
    /\ run.input.new_interests = ""
    /\ "error_required_fields" \in run.msgs
    /\ session.current_user_id /= NoId

\* the run pressed "Get Recommendations" and fit_transform found no
\* vocabulary in the filtered courses
FitFailed(r) ==
    /\ r.input.button = "Get Recommendations"
    /\ "fit_transform" \in r.calls
    /\ Vocabulary(SelectSeq(df.rows, LAMBDA x :
           r.input.selected_category = ALL
               \/ x.Category = r.input.selected_category)) = {}

\* C10: a vectorization failure in a recommendation request ends the run
\* normally with a warning and no recommendations, leaves the users and
\* progress tables and the session unchanged, and the next run passes the
\* start of main() again.
C10_VectorizationFailureIsSoft ==
    [][FitFailed(run') =>
          /\ run'.end = "completed"
          /\ "warning_not_enough_data" \in run'.msgs
          /\ run'.recs = <<>>
          /\ users' = users
          /\ progress' = progress
          /\ session' = session
          /\ Prelude' = "ok"]_vars

\* C10 witness: the failure happens with a user and a progress record stored
C10_Witness ==
    /\ FitFailed(run)
    /\ users /= <<>>
    /\ progress /= <<>>

UserIds(table) == {table[i].user_id : i \in 1..Len(table)}

CatalogIds(frame) == {frame.rows[i].course_id : i \in 1..Len(frame.rows)}

\* C11: in the application flow every progress record has the user_id of a
\* stored profile and the course_id of a course of the loaded catalog; a
\* progress record is written only for the session's current user, who was
\* set by a successful lookup or registration; a registration that fails
\* leaves the current user as it was.
C11_ProgressRefersToUserAndCourse ==
    [][/\ \A i \in 1..Len(progress') :
             /\ progress'[i].user_id \in UserIds(users')
             /\ progress'[i].course_id \in CatalogIds(df')
       /\ progress' /= progress =>
             /\ session.current_user_id /= NoId
             /\ session.current_user_id \in UserIds(users)
             /\ progress'[Len(progress')].user_id = session.current_user_id
       /\ session' /= session =>
             /\ \/ "info_welcome_back" \in run'.msgs
                \/ "success_registration" \in run'.msgs
             /\ session'.current_user_id \in UserIds(users')
       /\ (\/ "error_failed_to_register" \in run'.msgs
           \/ "error_required_fields" \in run'.msgs) => session' = session
      ]_vars

\* C11 witness: a registration under a taken username has failed while the
\* current user, set by the earlier registration, has a progress record
C11_Witness ==
    /\ "error_failed_to_register" \in run.msgs
    /\ progress /= <<>>
    /\ session.current_user_id = progress[1].user_id
    /\ session.current_user_id \in UserIds(users)

====
